---- MODULE Spec2Model ----
(***************************************************************************)
(* A model of the notebook_utils helpers of openvino_notebooks:            *)
(*   download_file / download_ir_model   (Files)                           *)
(*   segmentation_map_to_image           (Visualization)                   *)
(*   check_device / check_openvino_version (Checks and Alerts)             *)
(* Strings are sequences of one-character strings, so that slicing,        *)
(* substring tests and path splitting are computed, not assumed.           *)
(***************************************************************************)
EXTENDS Integers, Sequences, FiniteSets, TLC

VARIABLES
    server,   \* what each URL answers: a resource or NotFound
    fs,       \* the local filesystem: [dirs, files]
    dl,       \* the last Files call: arguments, filesystem before, outcome
    seg,      \* the last segmentation_map_to_image call: arguments, outcome
    ie,       \* the inference engine: [available_devices, version]
    chk       \* the last Checks call: arguments, alerts displayed, outcome

vars == <<server, fs, dl, seg, ie, chk>>

None == "None"

(***************************************************************************)
(* Small string helpers.                                                   *)
(***************************************************************************)
\* a[:-n] of Python
DropLast(s, n) == IF Len(s) <= n THEN <<>> ELSE SubSeq(s, 1, Len(s) - n)

\* Python's `sub in s` on str: sub occurs as a contiguous slice of s
Contains(s, sub) ==
    \E i \in 0..(Len(s) - Len(sub)) : SubSeq(s, i + 1, i + Len(sub)) = sub

StartsWith(s, p) == Len(p) <= Len(s) /\ SubSeq(s, 1, Len(p)) = p

(***************************************************************************)
(* Checks and Alerts.                                                      *)
(***************************************************************************)
MaxVerLen == 3

Devices == {"CPU", "GPU", "HELLOWORLD"}

\* IECore().available_devices: a list of device names
DeviceLists == {<<>>, <<"CPU">>, <<"GPU">>, <<"CPU", "GPU">>, <<"GPU", "CPU">>}

VerChars == {"1", "2", "."}

\* openvino.inference_engine.get_version(): "<major>.<minor>.<patch>-<build>"
InstalledVersions ==
    {<<a, ".", b, ".", c, "-", d>> : a \in {"1", "2"}, b \in {"1", "2"},
                                     c \in {"1", "2"}, d \in {"1", "2"}}

VersionArgs == UNION {[1..n -> VerChars] : n \in 0..MaxVerLen}

Range(s) == {s[i] : i \in 1..Len(s)}

\* NotebookAlert.__init__: stores message and class, then show_message()
\* displays one alert box. The value is what the constructor displays.
NotebookAlert(message, alert_class) ==
    <<[alert_class |-> alert_class, message |-> message]>>

\* DeviceNotFoundAlert.__init__: builds the message from the device and the
\* available devices (singular or plural wording), class "warning".
DeviceNotFoundAlert(device) ==
    LET supported_devices == ie.available_devices
        message == [requires |-> device,
                    wording  |-> IF Len(supported_devices) = 1
                                 THEN "device is" ELSE "devices are",
                    listed   |-> IF Len(supported_devices) = 1
                                 THEN <<ie.available_devices[1]>>
                                 ELSE ie.available_devices]
    IN  NotebookAlert(message, "warning")

\* check_device with the alert raised instead of only constructed
check_device_raising(device) ==
    IF device \notin Range(ie.available_devices)
    THEN [shown |-> DeviceNotFoundAlert(device), ret |-> FALSE,
          raised |-> "DeviceNotFoundAlert"]
    ELSE [shown |-> <<>>, ret |-> TRUE, raised |-> None]

\* check_device: the displayed alerts, the return value, the exception
check_device(device) ==
    IF device \notin Range(ie.available_devices)
    THEN [shown |-> DeviceNotFoundAlert(device), ret |-> FALSE, raised |-> None]
    ELSE [shown |-> <<>>, ret |-> TRUE, raised |-> None]

\* check_openvino_version: `version not in installed_version` is Python's
\* substring test on str
check_openvino_version(version) ==
    LET installed_version == ie.version
    IN  IF ~Contains(installed_version, version)
        THEN [shown  |-> NotebookAlert([requires |-> version,
                                        wording  |-> "version is",
                                        listed   |-> installed_version],
                                       "danger"),
              ret |-> FALSE, raised |-> None]
        ELSE [shown |-> <<>>, ret |-> TRUE, raised |-> None]

\* a Checks call that has not run yet
ChkCall(op, device, version) ==
    [op |-> op, device |-> device, version |-> version, done |-> FALSE,
     shown |-> <<>>, ret |-> FALSE, raised |-> None]

ChkCalls == {ChkCall("check_device", d, <<>>) : d \in Devices}
            \cup {ChkCall("check_openvino_version", None, v) : v \in VersionArgs}

CheckDevice ==
    /\ chk.op = "check_device" /\ ~chk.done
    /\ LET r == check_device(chk.device)
       IN  chk' = [chk EXCEPT !.done = TRUE, !.shown = r.shown, !.ret = r.ret,
                              !.raised = r.raised]
    /\ UNCHANGED <<server, fs, dl, seg, ie>>

CheckOpenvinoVersion ==
    /\ chk.op = "check_openvino_version" /\ ~chk.done
    /\ LET r == check_openvino_version(chk.version)
       IN  chk' = [chk EXCEPT !.done = TRUE, !.shown = r.shown, !.ret = r.ret,
                              !.raised = r.raised]
    /\ UNCHANGED <<server, fs, dl, seg, ie>>

(***************************************************************************)
(* Visualization: segmentation_map_to_image.                               *)
(* An ndarray is [shape, data]: data is the row-major list of its values.  *)
(* A pixel is <<row, column>>, both from 1.                                *)
(***************************************************************************)
\* the largest label map, in pixels (H * W)
MaxPixels == 9

PixelValues == {0, 1}

Black == <<0, 0, 0>>

\* BinarySegmentation.get_colormap()
BinaryColormap == << <<255, 255, 255>>, <<0, 0, 0>> >>

\* a colormap of one class (the first CityScapes row)
RoadColormap == << <<128, 64, 128>> >>

Colormaps == {BinaryColormap, RoadColormap}

RECURSIVE Product(_)
Product(shape) == IF shape = <<>> THEN 1 ELSE Head(shape) * Product(Tail(shape))

Pix(H, W) == (1..H) \X (1..W)

N4(p) == {<<p[1] - 1, p[2]>>, <<p[1] + 1, p[2]>>, <<p[1], p[2] - 1>>, <<p[1], p[2] + 1>>}

N8(p) == {<<p[1] + di, p[2] + dj>> : di \in {-1, 0, 1}, dj \in {-1, 0, 1}} \ {p}

\* the pixels of `allowed` connected to `seed` (4- or 8-connected by `eight`)
RECURSIVE Grow(_, _, _)
Grow(seed, allowed, eight) ==
    LET next == seed \cup {q \in allowed :
                             \E p \in seed : q \in (IF eight THEN N8(p) ELSE N4(p))}
    IN  IF next = seed THEN seed ELSE Grow(next, allowed, eight)

\* the connected components of the pixel set M
RECURSIVE Components(_, _)
Components(M, eight) ==
    IF M = {} THEN {}
    ELSE LET p == CHOOSE q \in M : TRUE
             C == Grow({p}, M, eight)
         IN  {C} \cup Components(M \ C, eight)

\* the pixels outside component C: reachable from beyond the image border by
\* 4-connected steps that avoid C
Outside(C, H, W) ==
    LET free == Pix(H, W) \ C
        rim  == {p \in free : p[1] \in {1, H} \/ p[2] \in {1, W}}
    IN  Grow(rim, free, FALSE)

\* a pixel of C is a border point towards `region` when a 4-neighbour is in it
BorderTowards(C, region) == {p \in C : N4(p) \cap region # {}}

\* the contours traced around one 8-connected component C: its outer contour
\* and one contour per hole. A contour is the closed polygon through border
\* points: [kind, border, inside], the pixels on it and strictly inside it.
ContoursOf(C, H, W) ==
    LET outside == Outside(C, H, W)
        filled  == Pix(H, W) \ outside
        beyond  == (((0..(H + 1)) \X (0..(W + 1))) \ Pix(H, W)) \cup outside
        rim     == BorderTowards(C, beyond)
    IN  [component |-> C,
         filled |-> filled,
         outer  |-> [kind |-> "outer", border |-> rim, inside |-> filled \ rim],
         holes  |-> {[kind |-> "hole", border |-> BorderTowards(C, h), inside |-> h] :
                       h \in Components(filled \ C, FALSE)}]

\* findContours that retrieves the whole contour tree whatever the mode
findContours_tree(M, H, W, mode) ==
    LET traced == {ContoursOf(C, H, W) : C \in Components(M, TRUE)}
    IN  {t.outer : t \in traced} \cup UNION {t.holes : t \in traced}

\* cv2.findContours(label_index_map, mode, CHAIN_APPROX_SIMPLE) with the
\* nonzero pixels M of the map. RETR_TREE retrieves every contour;
\* RETR_EXTERNAL only the outer contours of the components that lie in no
\* hole of another component.
findContours(M, H, W, mode) ==
    LET traced == {ContoursOf(C, H, W) : C \in Components(M, TRUE)}
    IN  IF mode = "RETR_EXTERNAL"
        THEN {t.outer : t \in {u \in traced :
                                 ~\E v \in traced : v # u /\ u.component \subseteq v.filled}}
        ELSE {t.outer : t \in traced} \cup UNION {t.holes : t \in traced}

\* cv2.drawContours(mask, contours, contourIdx=-1, color, thickness=FILLED)
\* without a hierarchy: the edges of all contours are collected and filled in
\* one pass by the even-odd rule; the polygon lines themselves are drawn too.
drawContours(mask, contours, color) ==
    LET painted(p) ==
            \/ \E c \in contours : p \in c.border
            \/ Cardinality({c \in contours : p \in c.inside}) % 2 = 1
    IN  [p \in DOMAIN mask |-> IF painted(p) THEN color ELSE mask[p]]

\* the loop over enumerate(colormap), labels 0 .. len(colormap)-1 in order
RECURSIVE DrawLabels(_, _, _, _, _, _, _)
DrawLabels(mask, px, H, W, colormap, contour_mode, label_index) ==
    IF label_index >= Len(colormap) THEN mask
    ELSE LET label_index_map == {p \in Pix(H, W) : px[p] = label_index}
             contours == findContours(label_index_map, H, W, contour_mode)
         IN  DrawLabels(drawContours(mask, contours, colormap[label_index + 1]),
                        px, H, W, colormap, contour_mode, label_index + 1)

NoImage == [shape |-> <<>>, px |-> <<>>]

SegFail(e) == [raised |-> e, image |-> NoImage]

\* the shape test of segmentation_map_to_image
BadShape(shape) == Len(shape) # 2 /\ shape[1] # 1

\* segmentation_map_to_image that counts the distinct values against the
\* columns of the colormap (colormap.shape[1]) instead of its rows
segmentation_map_to_image_by_columns(result, colormap, remove_holes) ==
    IF BadShape(result.shape) THEN SegFail("ValueError")
    ELSE IF Cardinality(Range(result.data)) > Len(colormap[1]) THEN SegFail("ValueError")
    ELSE
      LET shape == IF result.shape[1] = 1 THEN Tail(result.shape) ELSE result.shape
      IN  IF Len(shape) < 2 THEN SegFail("IndexError")
          ELSE IF ~(Len(shape) = 2 \/ (Len(shape) = 3 /\ shape[3] = 1))
               THEN SegFail("cv2.error")
          ELSE
            LET H == shape[1]
                W == shape[2]
                px == [p \in Pix(H, W) |-> result.data[(p[1] - 1) * W + p[2]] % 256]
                contour_mode == IF remove_holes THEN "RETR_EXTERNAL" ELSE "RETR_TREE"
                mask == [p \in Pix(H, W) |-> Black]
            IN  [raised |-> None,
                 image  |-> [shape |-> <<H, W, 3>>,
                             px |-> DrawLabels(mask, px, H, W, colormap, contour_mode, 0)]]

\* segmentation_map_to_image(result, colormap, remove_holes)
segmentation_map_to_image(result, colormap, remove_holes) ==
    IF BadShape(result.shape) THEN SegFail("ValueError")
    ELSE IF Cardinality(Range(result.data)) > Len(colormap) THEN SegFail("ValueError")
    ELSE
      LET shape == IF result.shape[1] = 1 THEN Tail(result.shape) ELSE result.shape
      IN  IF Len(shape) < 2 THEN SegFail("IndexError")
          ELSE IF ~(Len(shape) = 2 \/ (Len(shape) = 3 /\ shape[3] = 1))
               THEN SegFail("cv2.error")
          ELSE
            LET H == shape[1]
                W == shape[2]
                px == [p \in Pix(H, W) |-> result.data[(p[1] - 1) * W + p[2]] % 256]
                contour_mode == IF remove_holes THEN "RETR_EXTERNAL" ELSE "RETR_TREE"
                mask == [p \in Pix(H, W) |-> Black]
            IN  [raised |-> None,
                 image  |-> [shape |-> <<H, W, 3>>,
                             px |-> DrawLabels(mask, px, H, W, colormap, contour_mode, 0)]]

Array(shape) == {[shape |-> shape, data |-> d] : d \in [1..Product(shape) -> PixelValues]}

Zeros(shape) == [shape |-> shape, data |-> [i \in 1..Product(shape) |-> 0]]

\* label maps in (H,W) and (1,H,W) form, and arrays of other ranks
Dims == {d \in (1..MaxPixels) \X (1..MaxPixels) : d[1] * d[2] <= MaxPixels}

Results ==
    UNION {Array(<<d[1], d[2]>>) \cup Array(<<1, d[1], d[2]>>) : d \in Dims}
    \cup {Zeros(<<n>>) : n \in 1..2}
    \cup {Zeros(<<2, h, w>>) : h \in 1..2, w \in 1..2}
    \cup {Zeros(<<1, 2, 2, c>>) : c \in 1..2}
    \cup {Zeros(<<2, 2, 2, 2>>)}

\* a segmentation_map_to_image call that has not run yet
SegCalls ==
    {[result |-> result, colormap |-> colormap, remove_holes |-> remove_holes,
      done |-> FALSE, raised |-> None, image |-> NoImage] :
       result \in Results, colormap \in Colormaps, remove_holes \in BOOLEAN}

SegmentationMapToImage ==
    /\ ~seg.done
    /\ LET r == segmentation_map_to_image(seg.result, seg.colormap, seg.remove_holes)
       IN  seg' = [seg EXCEPT !.done = TRUE, !.raised = r.raised, !.image = r.image]
    /\ UNCHANGED <<server, fs, dl, ie, chk>>

(***************************************************************************)
(* Files: download_file and download_ir_model.                             *)
(* A URL is its path and query as a string (scheme and host are left out). *)
(* A filesystem path is a sequence of names; fs holds absolute paths.      *)
(* An optional argument is <<>> (None) or <<value>>.                       *)
(***************************************************************************)
MaxSize == 2

Nothing == <<>>
Some(x) == <<x>>

XmlUrl == <<"/", "r", "/", "m", ".", "x", "m", "l">>
BinUrl == <<"/", "r", "/", "m", ".", "b", "i", "n">>
Urls == {XmlUrl, BinUrl}

\* the current working directory of the notebook
Cwd == << <<"w">> >>

\* position of the first occurrence of character c in s, or 0
RECURSIVE IndexOf(_, _, _)
IndexOf(s, c, i) ==
    IF i > Len(s) THEN 0 ELSE IF s[i] = c THEN i ELSE IndexOf(s, c, i + 1)

\* urllib.parse.urlparse(url).path: the URL up to its query
UrlPath(url) ==
    LET q == IndexOf(url, "?", 1)
    IN  IF q = 0 THEN url ELSE SubSeq(url, 1, q - 1)

\* the "/"-separated components of s, empty ones and "." dropped, as pathlib
\* keeps them in Path(s).parts (the root of an absolute path is not counted
\* here; see Parts)
RECURSIVE Split(_, _)
Split(s, cur) ==
    LET keep == IF cur = <<>> \/ cur = <<".">> THEN <<>> ELSE <<cur>>
    IN  IF s = <<>> THEN keep
        ELSE IF Head(s) = "/" THEN keep \o Split(Tail(s), <<>>)
        ELSE Split(Tail(s), Append(cur, Head(s)))

\* Path(s).parts: an absolute path has the root "/" as its first part
Parts(s) ==
    IF s # <<>> /\ Head(s) = "/" THEN << <<"/">> >> \o Split(s, <<>>) ELSE Split(s, <<>>)

\* Path(s).name: the last component, "" when there is none
PathName(s) ==
    LET parts == Split(s, <<>>)
    IN  IF parts = <<>> THEN <<>> ELSE parts[Len(parts)]

\* os.path.basename(s): what follows the last "/"
RECURSIVE Basename(_)
Basename(s) ==
    IF IndexOf(s, "/", 1) = 0 THEN s
    ELSE Basename(SubSeq(s, IndexOf(s, "/", 1) + 1, Len(s)))

\* what the server answers for a URL
NotFound == [status |-> 404, size |-> 0, has_length |-> FALSE, disposition |-> Nothing]

Served(size, has_length, disposition) ==
    [status |-> 200, size |-> size, has_length |-> has_length, disposition |-> disposition]

SimpleName == <<"n">>
NestedName == <<"a", "/", "n">>

Answers ==
    {NotFound,
     Served(MaxSize, TRUE, Nothing),
     Served(MaxSize, FALSE, Nothing),
     Served(MaxSize, TRUE, Some(SimpleName)),
     Served(MaxSize, TRUE, Some(NestedName))}

Servers == [Urls -> Answers]

\* urllib.request.urlopen(url): the answer of the server; an unknown URL is 404
urlopen(url) == IF url \in DOMAIN server THEN server[url] ELSE NotFound

\* an existence test that never finds the target
Exists_never(f, path) == FALSE

\* filesystem helpers
Exists(f, path) == path \in f.dirs \/ path \in DOMAIN f.files

Prefixes(path) == {SubSeq(path, 1, n) : n \in 1..Len(path)}

\* mkdir that creates the directory itself but not its missing parents
mkdir_no_parents(f, path) ==
    IF path \in DOMAIN f.files THEN [raised |-> "FileExistsError", fs |-> f]
    ELSE [raised |-> None, fs |-> [f EXCEPT !.dirs = @ \cup {path}]]

\* Path.mkdir(parents=True, exist_ok=True)
mkdir(f, path) ==
    IF path \in DOMAIN f.files THEN [raised |-> "FileExistsError", fs |-> f]
    ELSE IF \E q \in Prefixes(path) : q \in DOMAIN f.files
         THEN [raised |-> "NotADirectoryError", fs |-> f]
    ELSE [raised |-> None, fs |-> [f EXCEPT !.dirs = @ \cup Prefixes(path)]]

WriteFile(f, path, content) ==
    [f EXCEPT !.files = [q \in DOMAIN f.files \cup {path} |->
                           IF q = path THEN content ELSE f.files[q]]]

DeleteFile(f, path) ==
    [f EXCEPT !.files = [q \in DOMAIN f.files \ {path} |-> f.files[q]]]

\* urlretrieve that opens the target for appending: the body is written after
\* what the file already holds
urlretrieve_appending(f, url, path) ==
    IF urlopen(url).status # 200 THEN [raised |-> "HTTPError", fs |-> f]
    ELSE IF path \in f.dirs THEN [raised |-> "IsADirectoryError", fs |-> f]
    ELSE [raised |-> None,
          fs |-> WriteFile(f, path,
                   [src |-> url,
                    size |-> urlopen(url).size +
                             (IF path \in DOMAIN f.files THEN f.files[path].size ELSE 0)])]

\* urllib.request.urlretrieve(url, filename): the body of the URL is written
\* to filename from the beginning
urlretrieve(f, url, path) ==
    IF urlopen(url).status # 200 THEN [raised |-> "HTTPError", fs |-> f]
    ELSE IF path \in f.dirs THEN [raised |-> "IsADirectoryError", fs |-> f]
    ELSE [raised |-> None,
          fs |-> WriteFile(f, path, [src |-> url, size |-> urlopen(url).size])]

\* the outcome of a Files call
DlOut(raised, f, ret, target, retrieved, printed) ==
    [raised |-> raised, fs |-> f, ret |-> ret, target |-> target,
     retrieved |-> retrieved, printed |-> printed]

\* the filename taken from the URL path alone, whatever the headers say
url_filename_from_path(url) == PathName(UrlPath(url))

\* the filename download_file uses when none is passed: the filename of the
\* Content-Disposition header, else the name of the URL path
url_filename(url) ==
    LET urlobject == urlopen(url)
    IN  IF urlobject.disposition # Nothing /\ urlobject.disposition[1] # <<>>
        THEN urlobject.disposition[1]
        ELSE PathName(UrlPath(url))

\* Path.resolve(): the absolute path; fs paths are absolute, without the root
resolve(path) ==
    IF path # <<>> /\ path[1] = <<"/">> THEN Tail(path) ELSE Cwd \o path

\* download_file that creates `directory` before it validates the filename
download_file_mkdir_first(f, url, filename, directory) ==
    IF filename = Nothing /\ urlopen(url).status # 200
    THEN DlOut("Exception", f, <<>>, <<>>, <<>>, <<>>)
    ELSE
      LET name  == IF filename = Nothing THEN url_filename(url) ELSE filename[1]
          parts == Parts(name)
          made == IF directory = Nothing THEN [raised |-> None, fs |-> f]
                  ELSE mkdir(f, resolve(Parts(directory[1])))
          target == IF directory = Nothing THEN parts
                    ELSE Parts(directory[1]) \o parts
          path == resolve(target)
      IN  IF made.raised # None
          THEN DlOut(made.raised, made.fs, <<>>, <<>>, <<>>, <<>>)
          ELSE IF Len(parts) > 1
          THEN DlOut("ValueError", made.fs, <<>>, <<>>, <<>>, <<>>)
          ELSE IF filename # Nothing
          THEN DlOut("UnboundLocalError", made.fs, <<>>, target, <<>>, <<>>)
          ELSE
            LET urlobject_size == IF urlopen(url).has_length
                                  THEN urlopen(url).size ELSE 0
                st_size == IF path \in DOMAIN made.fs.files
                           THEN made.fs.files[path].size ELSE -1
            IN  IF ~Exists(made.fs, path) \/ st_size # urlobject_size
                THEN LET got == urlretrieve(made.fs, url, path)
                     IN  IF got.raised # None
                         THEN DlOut(got.raised, got.fs, <<>>, target, <<>>, <<>>)
                         ELSE DlOut(None, got.fs, resolve(target), target,
                                    <<[url |-> url, path |-> path]>>, <<>>)
                ELSE DlOut(None, made.fs, resolve(target), target, <<>>,
                           <<"already exists">>)

\* download_file(url, filename, directory, show_progress) on filesystem f.
\* The progress bar only displays, and swallows its own exceptions.
download_file(f, url, filename, directory) ==
    IF filename = Nothing /\ urlopen(url).status # 200
    THEN DlOut("Exception", f, <<>>, <<>>, <<>>, <<>>)
    ELSE
      LET name  == IF filename = Nothing THEN url_filename(url) ELSE filename[1]
          parts == Parts(name)
      IN  IF Len(parts) > 1 THEN DlOut("ValueError", f, <<>>, <<>>, <<>>, <<>>)
          ELSE
            LET made == IF directory = Nothing THEN [raised |-> None, fs |-> f]
                        ELSE mkdir(f, resolve(Parts(directory[1])))
                target == IF directory = Nothing THEN parts
                          ELSE Parts(directory[1]) \o parts
                path == resolve(target)
            IN  IF made.raised # None
                THEN DlOut(made.raised, made.fs, <<>>, <<>>, <<>>, <<>>)
                \* urlobject is bound only when filename was None
                ELSE IF filename # Nothing
                THEN DlOut("UnboundLocalError", made.fs, <<>>, target, <<>>, <<>>)
                ELSE
                  LET urlobject_size == IF urlopen(url).has_length
                                        THEN urlopen(url).size ELSE 0
                      \* os.stat(filename).st_size; of a directory it is not
                      \* a length of any body
                      st_size == IF path \in DOMAIN made.fs.files
                                 THEN made.fs.files[path].size ELSE -1
                  IN  IF ~Exists(made.fs, path) \/ st_size # urlobject_size
                      THEN LET got == urlretrieve(made.fs, url, path)
                           IN  IF got.raised # None
                               THEN DlOut(got.raised, got.fs, <<>>, target, <<>>, <<>>)
                               ELSE DlOut(None, got.fs, resolve(target), target,
                                          <<[url |-> url, path |-> path]>>, <<>>)
                      ELSE DlOut(None, made.fs, resolve(target), target, <<>>,
                                 <<"already exists">>)

\* download_ir_model that returns the path of the second download
download_ir_model_returning_bin(f, model_xml_url, destination_folder) ==
    LET model_bin_url == DropLast(model_xml_url, 4) \o <<".", "b", "i", "n">>
        xml == download_file(f, model_xml_url, Nothing, destination_folder)
    IN  IF xml.raised # None THEN xml
        ELSE LET bin == download_file(xml.fs, model_bin_url, Nothing, destination_folder)
             IN  IF bin.raised # None
                 THEN [bin EXCEPT !.retrieved = xml.retrieved \o @,
                                  !.printed = xml.printed \o @]
                 ELSE DlOut(None, bin.fs, bin.ret, bin.target,
                            xml.retrieved \o bin.retrieved, xml.printed \o bin.printed)

\* download_ir_model(model_xml_url, destination_folder) on filesystem f
download_ir_model(f, model_xml_url, destination_folder) ==
    LET model_bin_url == DropLast(model_xml_url, 4) \o <<".", "b", "i", "n">>
        xml == download_file(f, model_xml_url, Nothing, destination_folder)
    IN  IF xml.raised # None THEN xml
        ELSE LET bin == download_file(xml.fs, model_bin_url, Nothing, destination_folder)
             IN  IF bin.raised # None
                 THEN [bin EXCEPT !.retrieved = xml.retrieved \o @,
                                  !.printed = xml.printed \o @]
                 ELSE DlOut(None, bin.fs, xml.ret, xml.target,
                            xml.retrieved \o bin.retrieved, xml.printed \o bin.printed)

(***************************************************************************)
(* The Files state machine.                                                *)
(***************************************************************************)
FileArgs == {Nothing, Some(<<"f">>), Some(<<"d", "/", "f">>)}

DirArgs == {Nothing, Some(<<"d", "/", "e">>)}

LocalSrc == <<"local">>

EmptyFs == [dirs |-> Prefixes(Cwd), files |-> <<>>]

\* the notebook directory before the cells run: empty, or holding a file
\* named like the model from an earlier session
InitialFs ==
    {EmptyFs}
    \cup {WriteFile(EmptyFs, Cwd \o << PathName(XmlUrl) >>, [src |-> LocalSrc, size |-> k]) :
            k \in 0..MaxSize}

DlCall(op, url, filename, directory, before, out) ==
    [op |-> op, url |-> url, filename |-> filename, directory |-> directory,
     before |-> before, raised |-> out.raised, ret |-> out.ret, target |-> out.target,
     retrieved |-> out.retrieved, printed |-> out.printed]

DlIdle == DlCall("none", <<>>, Nothing, Nothing, EmptyFs,
                 DlOut(None, EmptyFs, <<>>, <<>>, <<>>, <<>>))

DownloadFile ==
    \E url \in Urls, filename \in FileArgs, directory \in DirArgs :
        LET out == download_file(fs, url, filename, directory)
        IN  /\ fs' = out.fs
            /\ dl' = DlCall("download_file", url, filename, directory, fs, out)
            /\ UNCHANGED <<server, seg, ie, chk>>

DownloadIrModel ==
    \E model_xml_url \in Urls, destination_folder \in DirArgs :
        LET out == download_ir_model(fs, model_xml_url, destination_folder)
        IN  /\ fs' = out.fs
            /\ dl' = DlCall("download_ir_model", model_xml_url, Nothing,
                            destination_folder, fs, out)
            /\ UNCHANGED <<server, seg, ie, chk>>

\* the test cell: os.remove(os.path.basename(url)) when that file exists
RemoveFile ==
    \E url \in Urls :
        LET path == resolve(<< Basename(url) >>)
        IN  /\ path \in DOMAIN fs.files
            /\ fs' = DeleteFile(fs, path)
            /\ dl' = DlCall("remove", url, Nothing, Nothing, fs,
                            DlOut(None, fs', <<>>, << Basename(url) >>, <<>>, <<>>))
            /\ UNCHANGED <<server, seg, ie, chk>>

\* download_file(url) of the model file into the working directory,
\* interrupted while urlretrieve copies the body: the target was opened for
\* writing and holds the first k bytes when the exception leaves the call
InterruptedDownload ==
    \E k \in 0..(MaxSize - 1) :
        LET url == XmlUrl
            directory == Nothing
            out == download_file(fs, url, Nothing, directory)
        IN  /\ out.raised = None
            /\ out.retrieved # <<>>
            /\ k < urlopen(url).size
            /\ fs' = WriteFile(out.fs, out.retrieved[1].path, [src |-> url, size |-> k])
            /\ dl' = DlCall("interrupted", url, Nothing, directory, fs,
                            DlOut("KeyboardInterrupt", fs', <<>>, out.target, <<>>, <<>>))
            /\ UNCHANGED <<server, seg, ie, chk>>

(***************************************************************************)
(* Specifications.                                                         *)
(***************************************************************************)
SegDone == [result |-> Zeros(<<1>>), colormap |-> RoadColormap, remove_holes |-> FALSE,
            done |-> TRUE, raised |-> "IndexError", image |-> NoImage]

ChkDone == [ChkCall("none", None, <<>>) EXCEPT !.done = TRUE]

NoEngine == [available_devices |-> <<>>, version |-> <<>>]

NoServer == [u \in Urls |-> NotFound]

\* Files
Init ==
    /\ server \in Servers
    /\ fs \in InitialFs
    /\ dl = DlIdle
    /\ seg = SegDone
    /\ ie = NoEngine
    /\ chk = ChkDone

Next == DownloadFile \/ DownloadIrModel \/ RemoveFile \/ InterruptedDownload

Spec == Init /\ [][Next]_vars

\* Visualization
SegInit ==
    /\ seg \in SegCalls
    /\ server = NoServer
    /\ fs = EmptyFs
    /\ dl = DlIdle
    /\ ie = NoEngine
    /\ chk = ChkDone

SegNext == SegmentationMapToImage

SegSpec == SegInit /\ [][SegNext]_vars

\* Checks and Alerts
ChkInit ==
    /\ ie \in [available_devices : DeviceLists, version : InstalledVersions]
    /\ chk \in ChkCalls
    /\ server = NoServer
    /\ fs = EmptyFs
    /\ dl = DlIdle
    /\ seg = SegDone

ChkNext == CheckDevice \/ CheckOpenvinoVersion

ChkSpec == ChkInit /\ [][ChkNext]_vars

(***************************************************************************)
(* Properties: Checks and Alerts (under ChkSpec).                          *)
(***************************************************************************)
DeviceChecked == chk.op = "check_device" /\ chk.done

VersionChecked == chk.op = "check_openvino_version" /\ chk.done

\* C7: check_device(device) returns True exactly when device is one of the
\* available devices; otherwise one DeviceNotFoundAlert (class warning, naming
\* the device) is displayed and False is returned; nothing is raised and
\* nothing is displayed for an available device.
C7_CheckDevice ==
    DeviceChecked =>
        /\ chk.raised = None
        /\ chk.ret <=> (\E i \in 1..Len(ie.available_devices) :
                            ie.available_devices[i] = chk.device)
        /\ chk.ret => chk.shown = <<>>
        /\ ~chk.ret => /\ Len(chk.shown) = 1
                       /\ chk.shown[1].alert_class = "warning"
                       /\ chk.shown[1].message.requires = chk.device

\* C7 witness: an unavailable device was checked while other devices exist
C7_Witness ==
    /\ DeviceChecked
    /\ ~chk.ret
    /\ chk.device = "HELLOWORLD"
    /\ Len(ie.available_devices) = 2
    /\ Len(chk.shown) = 1

\* the release a version string names: its leading dot-separated components,
\* e.g. "2.1" and "2.1.1" name the installed "2.1.1-2", while "1.1" does not
VersionInstalled(version, installed) ==
    /\ version # <<>>
    /\ StartsWith(installed, version)
    /\ version[Len(version)] \notin {".", "-"}
    /\ Len(version) = Len(installed) \/ installed[Len(version) + 1] \in {".", "-"}

\* C8: check_openvino_version(version) returns True exactly when version is
\* the installed version; otherwise an alert of class danger is displayed and
\* False is returned; nothing is raised.
C8_VersionIffInstalled ==
    VersionChecked =>
        /\ chk.raised = None
        /\ chk.ret <=> VersionInstalled(chk.version, ie.version)
        /\ ~chk.ret => Len(chk.shown) = 1 /\ chk.shown[1].alert_class = "danger"

(***************************************************************************)
(* Properties: segmentation_map_to_image (under SegSpec).                  *)
(***************************************************************************)
\* the shapes the function documents: (H, W) and (1, H, W), H, W >= 1
DocumentedShape(shape) ==
    \/ Len(shape) = 2 /\ shape[1] >= 1 /\ shape[2] >= 1
    \/ Len(shape) = 3 /\ shape[1] = 1 /\ shape[2] >= 1 /\ shape[3] >= 1

HeightOf(shape) == shape[Len(shape) - 1]
WidthOf(shape) == shape[Len(shape)]

\* the value of the label map at pixel p
LabelAt(result, p) == result.data[(p[1] - 1) * WidthOf(result.shape) + p[2]]

ClassIndices(result, colormap) ==
    \A i \in 1..Len(result.data) : result.data[i] \in 0..(Len(colormap) - 1)

\* C4: with remove_holes=False a label map of class indices gives an H x W x 3
\* image whose pixel (i, j) has the colour colormap[result[i, j]].
C4_PixelLookup ==
    (/\ seg.done
     /\ ~seg.remove_holes
     /\ DocumentedShape(seg.result.shape)
     /\ ClassIndices(seg.result, seg.colormap))
    => /\ seg.raised = None
       /\ seg.image.shape = <<HeightOf(seg.result.shape), WidthOf(seg.result.shape), 3>>
       /\ \A p \in Pix(HeightOf(seg.result.shape), WidthOf(seg.result.shape)) :
            seg.image.px[p] = seg.colormap[LabelAt(seg.result, p) + 1]

\* C5: ValueError for every shape that is neither (H, W) nor (1, H, W); a
\* result of shape (H, W) or (1, H, W) with no more distinct values than the
\* colormap has rows is accepted and gives an image of shape (H, W, 3).
C5_ShapeCheck ==
    seg.done =>
        /\ ~DocumentedShape(seg.result.shape) => seg.raised = "ValueError"
        /\ (/\ DocumentedShape(seg.result.shape)
            /\ Cardinality({seg.result.data[i] : i \in 1..Len(seg.result.data)})
                 <= Len(seg.colormap))
           => /\ seg.raised = None
              /\ seg.image.shape =
                   <<HeightOf(seg.result.shape), WidthOf(seg.result.shape), 3>>

\* the pixels enclosed by the outer boundary of region C (C itself included)
Enclosed(C, H, W) == Pix(H, W) \ Outside(C, H, W)

\* for each class of the colormap, the pixels that some connected region of
\* that class in the label map of the last call encloses
EnclosedBy ==
    LET H == seg.image.shape[1]
        W == seg.image.shape[2]
    IN  [k \in 0..(Len(seg.colormap) - 1) |->
           UNION {Enclosed(C, H, W) :
                    C \in Components({p \in Pix(H, W) : LabelAt(seg.result, p) = k}, TRUE)}]

HolesRemoved == seg.done /\ seg.remove_holes /\ seg.raised = None

\* C6 as stated: with remove_holes=True every pixel enclosed by the outer
\* boundary of a region of class k has the colour colormap[k].
C6_EnclosedTakesRegionColour ==
    HolesRemoved =>
        LET cover == EnclosedBy
        IN  \A k \in DOMAIN cover :
                \A p \in cover[k] : seg.image.px[p] = seg.colormap[k + 1]

\* C6 amended: with remove_holes=True every pixel of the returned image has
\* the colour of the highest class index that has a region enclosing it (the
\* classes are filled in ascending order, each over the earlier ones), and a
\* pixel no region encloses stays (0, 0, 0).
C6_HighestEnclosingClass ==
    HolesRemoved =>
        LET cover == EnclosedBy
        IN  \A p \in DOMAIN seg.image.px :
                LET classes == {k \in DOMAIN cover : p \in cover[k]}
                IN  IF classes = {} THEN seg.image.px[p] = Black
                    ELSE \E k \in classes :
                            /\ \A j \in classes : j <= k
                            /\ seg.image.px[p] = seg.colormap[k + 1]

\* C6 witness: a hole of class 0 inside a region of class 1 was filled with
\* the colour of class 1
C6_Witness ==
    /\ HolesRemoved
    /\ seg.colormap = BinaryColormap
    /\ \E p \in DOMAIN seg.image.px :
          /\ LabelAt(seg.result, p) = 0
          /\ p \in EnclosedBy[1]
          /\ seg.image.px[p] = BinaryColormap[2]
    /\ \E p \in DOMAIN seg.image.px : seg.image.px[p] = BinaryColormap[1]

(***************************************************************************)
(* Properties: Files (under Spec).                                         *)
(***************************************************************************)
XmlName == <<"m", ".", "x", "m", "l">>
BinName == <<"m", ".", "b", "i", "n">>

\* the last path component of each URL, written out
LastComponent(url) == IF url = XmlUrl THEN XmlName ELSE BinName

\* the directory an optional directory argument names, written out
DirOf(directory) ==
    IF directory = Nothing THEN Cwd ELSE Cwd \o << <<"d">>, <<"e">> >>

DownloadFileCalled == dl.op = "download_file"

\* C1: download_file retrieves the URL to the target path exactly when the
\* target does not exist or its size differs from the Content-Length of the
\* URL; otherwise nothing is retrieved, "already exists" is reported and the
\* file is left as it was. (Calls on a URL that answers with a
\* Content-Length, with a file name of one component.)
C1_RetrieveIffMissingOrSizeDiffers ==
    (/\ DownloadFileCalled
     /\ server[dl.url].status = 200
     /\ server[dl.url].has_length
     /\ dl.raised # "ValueError")
    => LET path  == Cwd \o dl.target
           stale == \/ path \notin DOMAIN dl.before.files
                    \/ dl.before.files[path].size # server[dl.url].size
       IN  IF stale
           THEN /\ dl.retrieved = <<[url |-> dl.url, path |-> path]>>
                /\ path \in DOMAIN fs.files
                /\ fs.files[path] = [src |-> dl.url, size |-> server[dl.url].size]
           ELSE /\ dl.retrieved = <<>>
                /\ dl.printed = <<"already exists">>
                /\ fs = dl.before

\* C2: with a filename argument (one component) download_file saves the file
\* under that name, in `directory` or the working directory, and returns the
\* absolute path of that file.
C2_SavedUnderGivenName ==
    (/\ DownloadFileCalled
     /\ dl.filename # Nothing
     /\ dl.filename[1] = <<"f">>
     /\ server[dl.url].status = 200)
    => /\ dl.raised = None
       /\ dl.ret = DirOf(dl.directory) \o << <<"f">> >>
       /\ dl.ret \in DOMAIN fs.files

NamedFromUrl == DownloadFileCalled /\ dl.filename = Nothing /\ dl.raised = None

IrModelDownloaded ==
    dl.op = "download_ir_model" /\ dl.url = XmlUrl /\ dl.raised = None

SavedName(url) ==
    IF server[url].disposition # Nothing
    THEN server[url].disposition[1] ELSE LastComponent(url)

C10_DirectoryCreated ==
    (DownloadFileCalled /\ dl.directory # Nothing) =>
        /\ dl.raised \notin {"Exception", "ValueError"} =>
              \A n \in 1..Len(DirOf(dl.directory)) :
                  SubSeq(DirOf(dl.directory), 1, n) \in fs.dirs
        /\ dl.raised = None =>
              /\ Len(dl.ret) = Len(DirOf(dl.directory)) + 1
              /\ SubSeq(dl.ret, 1, Len(DirOf(dl.directory))) = DirOf(dl.directory)
              /\ dl.ret \in DOMAIN fs.files

\* C10 witness: a successful call whose directory and its parent were missing
C10_Witness ==
    /\ DownloadFileCalled
    /\ dl.directory # Nothing
    /\ dl.raised = None
    /\ DirOf(dl.directory) \notin dl.before.dirs
    /\ Cwd \o << <<"d">> >> \notin dl.before.dirs
    /\ dl.retrieved # <<>>

\* the filename argument names a file inside a directory
NestedFilename == dl.filename # Nothing /\ Len(Parts(dl.filename[1])) > 1

\* C11: a filename argument of more than one path component makes
\* download_file raise ValueError with the filesystem left as it was: no
\* directory is created, no file is written and nothing is retrieved.
C11_NestedFilenameRejected ==
    (DownloadFileCalled /\ NestedFilename) =>
        /\ dl.raised = "ValueError"
        /\ fs = dl.before
        /\ dl.retrieved = <<>>
        /\ dl.ret = <<>>

\* C11 witness: the rejected call named a directory that did not exist, on a
\* URL the server would have served
C11_Witness ==
    /\ DownloadFileCalled
    /\ NestedFilename
    /\ dl.raised = "ValueError"
    /\ dl.directory # Nothing
    /\ DirOf(dl.directory) \notin dl.before.dirs
    /\ DirOf(dl.directory) \notin fs.dirs
    /\ server[dl.url].status = 200

\* the distinct values of the result of the last call: np.unique(result)
DistinctValues == {seg.result.data[i] : i \in 1..Len(seg.result.data)}

TooManyValues == seg.done /\ Cardinality(DistinctValues) > Len(seg.colormap)

\* C13: whenever the result holds more distinct values than the colormap has
\* rows, segmentation_map_to_image raises ValueError and returns no image.
C13_TooManyValuesRejected ==
    TooManyValues => seg.raised = "ValueError" /\ seg.image = NoImage

\* C13 witness: a label map of documented shape with the values 0 and 1 was
\* rejected against the one-row colormap
C13_Witness ==
    /\ TooManyValues
    /\ DocumentedShape(seg.result.shape)
    /\ seg.colormap = RoadColormap
    /\ DistinctValues = {0, 1}
    /\ seg.raised = "ValueError"
    /\ seg.image = NoImage

\* the path of the file download_file(url, directory=directory) saves
SavedPath(url, directory) == DirOf(directory) \o <<SavedName(url)>>

\* the last call was download_file without a filename, on a URL served with
\* a Content-Length, and found its target with a size other than that length
FoundIncomplete ==
    /\ DownloadFileCalled
    /\ dl.filename = Nothing
    /\ server[dl.url].status = 200
    /\ server[dl.url].has_length
    /\ SavedPath(dl.url, dl.directory) \in DOMAIN dl.before.files
    /\ dl.before.files[SavedPath(dl.url, dl.directory)].size # server[dl.url].size

\* C12: a target whose size differs from the Content-Length of the URL is
\* retrieved again by the next download_file call, once and as a whole; when
\* the call returns the file holds the body of the URL and its size equals
\* the Content-Length.
C12_IncompleteFetchedAgain ==
    FoundIncomplete =>
        /\ dl.raised = None
        /\ dl.retrieved = <<[url |-> dl.url, path |-> SavedPath(dl.url, dl.directory)]>>
        /\ dl.ret = SavedPath(dl.url, dl.directory)
        /\ fs.files[dl.ret] = [src |-> dl.url, size |-> server[dl.url].size]
        /\ dl.printed = <<>>

\* C12 witness: the target held the first byte of this URL, left there by an
\* interrupted download, and the call fetched it again
C12_Witness ==
    /\ FoundIncomplete
    /\ dl.before.files[SavedPath(dl.url, dl.directory)] = [src |-> dl.url, size |-> 1]
    /\ dl.raised = None
    /\ fs.files[dl.ret].size = server[dl.url].size
    /\ server[dl.url].size > 1

\* this step is a download_file call that returns, right after a
\* download_file call with the same arguments that returned
CalledAgain ==
    /\ dl.op = "download_file"
    /\ dl.raised = None
    /\ dl'.op = "download_file"
    /\ dl'.url = dl.url
    /\ dl'.filename = dl.filename
    /\ dl'.directory = dl.directory
    /\ dl'.before = fs

\* the second of two calls retrieves nothing, leaves every file as it was and
\* returns the path the first returned
SecondCallIdle ==
    /\ dl'.raised = None
    /\ dl'.retrieved = <<>>
    /\ Len(dl.retrieved) <= 1
    /\ fs' = fs
    /\ dl'.ret = dl.ret

\* C14 as stated: two download_file calls in succession with the same
\* arguments retrieve the file at most once; the second retrieves nothing,
\* leaves the file unchanged and returns the same path as the first.
C14_Idempotent == [][CalledAgain => SecondCallIdle]_vars

\* C14 amended: the same, for a URL that the server answers with a
\* Content-Length header.
C14_IdempotentWithContentLength ==
    [][(CalledAgain /\ server[dl.url].has_length) => SecondCallIdle]_vars

\* C14 witness: a call found the file an earlier retrieval of the same URL
\* had saved, retrieved nothing and returned its path
C14_Witness ==
    /\ DownloadFileCalled
    /\ dl.raised = None
    /\ server[dl.url].has_length
    /\ dl.retrieved = <<>>
    /\ dl.printed = <<"already exists">>
    /\ dl.ret \in DOMAIN dl.before.files
    /\ dl.before.files[dl.ret] = [src |-> dl.url, size |-> server[dl.url].size]
    /\ fs = dl.before

====
